---- MODULE Spec2Model ----
(***************************************************************************)
(* A model of SPGlobal_CombinedParser.py (and of the LOB check of          *)
(* SchedP_LOB_Test.py): the numeric normalizer, the sparse cell lookup,    *)
(* the worksheet classifiers, the two header locators and extractors, and  *)
(* the main file loop with its final aggregation.                          *)
(*                                                                         *)
(* Text is modelled by TLA+ strings, on which Len, SubSeq and \o act       *)
(* character-wise.  Python's None is the empty tuple <<>>, a str s is the  *)
(* 1-tuple <<s>>, and any other object is a 2-tuple.                       *)
(*                                                                         *)
(* A local name of the code that is read more than once is a parameter of  *)
(* a helper operator (its name ends in the name of the function it belongs *)
(* to).  An operator that reads a parameter more than once takes the       *)
(* argument as x0 and names its value x,                                   *)
(*     CHOOSE only \in { body : x \in {x0} } : TRUE,                       *)
(* as a Python call binds the value of an argument to the parameter.       *)
(***************************************************************************)
EXTENDS Integers, Sequences, FiniteSets, TLC

VARIABLES
    call,              \* the arguments of the function under check
    ret,               \* what it returned (NotCalled before the call)
    xml_files,         \* the input documents, in glob order
    pc,                \* position of the main script
    file_i,            \* 1-based position of file_path in xml_files
    sheet_i,           \* 1-based position of worksheet in the file
    all_page19_data,   \* accumulated premium-exhibit records
    all_sched_p_data,  \* accumulated schedule records
    pg19_df_sorted,    \* what goes to the premium sheet of the workbook
    sched_p_df_sorted, \* what goes to the schedule sheet of the workbook
    log                \* the logging calls of the main script, in order

vars == <<call, ret, xml_files, pc, file_i, sheet_i, all_page19_data,
          all_sched_p_data, pg19_df_sorted, sched_p_df_sorted, log>>

runVars == <<xml_files, pc, file_i, sheet_i, all_page19_data,
             all_sched_p_data, pg19_df_sorted, sched_p_df_sorted, log>>

(***************************************************************************)
(* Python values                                                           *)
(***************************************************************************)
None == <<>>
Str(s) == <<s>>
IsStr(v) == Len(v) = 1
Text(v) == v[1]
\* Python truthiness of an Optional[str]: None and "" are false
Truthy(v) == IsStr(v) /\ Len(Text(v)) > 0
NotCalled == [k |-> "not called"]
Returned(v) == [k |-> "returned", v |-> v]

Min(a, b) == IF a < b THEN a ELSE b

(***************************************************************************)
(* str methods                                                             *)
(***************************************************************************)
Ch(s, i) == SubSeq(s, i, i)
Tail1(s) == SubSeq(s, 2, Len(s))
Lowers == "abcdefghijklmnopqrstuvwxyz"
Uppers == "ABCDEFGHIJKLMNOPQRSTUVWXYZ"
Digits == "0123456789"
InChars(c, set0) ==
    (CHOOSE only \in { \E i \in 1..Len(set) : Ch(set, i) = c : set \in {set0} } : TRUE)
PosIn(c, set0) ==
    (CHOOSE only \in { CHOOSE i \in 1..Len(set) : Ch(set, i) = c : set \in {set0} } : TRUE)
UpperCh(c0) ==
    (CHOOSE only \in { (
        IF InChars(c, Lowers) THEN Ch(Uppers, PosIn(c, Lowers)) ELSE c
      ) : c \in {c0} } : TRUE)
LowerCh(c0) ==
    (CHOOSE only \in { (
        IF InChars(c, Uppers) THEN Ch(Lowers, PosIn(c, Uppers)) ELSE c
      ) : c \in {c0} } : TRUE)
IsSpace(c) == c \in {" ", "\t", "\n"}
isdigitCh(c) == InChars(c, Digits)

\* s.upper(), s.lower(): character by character, a half of s at a time
RECURSIVE upper(_)
upper(s0) ==
    (CHOOSE only \in { (
        IF Len(s) <= 1 THEN UpperCh(s)
        ELSE upper(SubSeq(s, 1, Len(s) \div 2))
                 \o upper(SubSeq(s, Len(s) \div 2 + 1, Len(s)))
      ) : s \in {s0} } : TRUE)

RECURSIVE lower(_)
lower(s0) ==
    (CHOOSE only \in { (
        IF Len(s) <= 1 THEN LowerCh(s)
        ELSE lower(SubSeq(s, 1, Len(s) \div 2))
                 \o lower(SubSeq(s, Len(s) \div 2 + 1, Len(s)))
      ) : s \in {s0} } : TRUE)

RECURSIVE lstrip(_)
lstrip(s0) ==
    (CHOOSE only \in { (
        IF Len(s) > 0 /\ IsSpace(Ch(s, 1)) THEN lstrip(Tail1(s)) ELSE s
      ) : s \in {s0} } : TRUE)

RECURSIVE rstrip(_)
rstrip(s0) ==
    (CHOOSE only \in { (
        IF Len(s) > 0 /\ IsSpace(Ch(s, Len(s)))
        THEN rstrip(SubSeq(s, 1, Len(s) - 1)) ELSE s
      ) : s \in {s0} } : TRUE)

strip(s) == rstrip(lstrip(s))

\* sub in s
In(sub0, s0) ==
    (CHOOSE only \in { (
        \E i \in 1..(Len(s) - Len(sub) + 1) : SubSeq(s, i, i + Len(sub) - 1) = sub
      ) : sub \in {sub0}, s \in {s0} } : TRUE)

startswith(s0, p0) ==
    (CHOOSE only \in { (
        Len(s) >= Len(p) /\ SubSeq(s, 1, Len(p)) = p
      ) : s \in {s0}, p \in {p0} } : TRUE)
endswith(s0, p0) ==
    (CHOOSE only \in { (
        Len(s) >= Len(p) /\ SubSeq(s, Len(s) - Len(p) + 1, Len(s)) = p
      ) : s \in {s0}, p \in {p0} } : TRUE)

\* s.replace(c, '') for a one-character c
RECURSIVE remove(_, _)
remove(s0, c0) ==
    (CHOOSE only \in { (
        IF Len(s) <= 1 THEN (IF s = c THEN "" ELSE s)
        ELSE remove(SubSeq(s, 1, Len(s) \div 2), c)
                 \o remove(SubSeq(s, Len(s) \div 2 + 1, Len(s)), c)
      ) : s \in {s0}, c \in {c0} } : TRUE)

\* s.strip(')'): strip the character c from both ends
RECURSIVE stripCh(_, _)
stripCh(s0, c0) ==
    (CHOOSE only \in { (
        IF Len(s) > 0 /\ Ch(s, 1) = c THEN stripCh(Tail1(s), c)
        ELSE IF Len(s) > 0 /\ Ch(s, Len(s)) = c
             THEN stripCh(SubSeq(s, 1, Len(s) - 1), c)
             ELSE s
      ) : s \in {s0}, c \in {c0} } : TRUE)

AllDigits(s0) ==
    (CHOOSE only \in { \A i \in 1..Len(s) : isdigitCh(Ch(s, i)) : s \in {s0} } : TRUE)
isdigit(s0) ==
    (CHOOSE only \in { Len(s) > 0 /\ AllDigits(s) : s \in {s0} } : TRUE)

\* int(s) of a string of decimal digits
RECURSIVE int(_)
int(s0) ==
    (CHOOSE only \in { (
        IF Len(s) = 0 THEN 0
        ELSE IF Len(s) = 1 THEN PosIn(s, Digits) - 1
        ELSE int(SubSeq(s, 1, Len(s) \div 2)) * 10 ^ (Len(s) - Len(s) \div 2)
                 + int(SubSeq(s, Len(s) \div 2 + 1, Len(s)))
      ) : s \in {s0} } : TRUE)

(***************************************************************************)
(* float: a finite value is m / 10^e in lowest terms of e, so that equal   *)
(* values are equal records; inf and nan are values of their own.          *)
(***************************************************************************)
RECURSIVE Norm(_, _)
Norm(m0, e0) ==
    (CHOOSE only \in { (
        IF m = 0 THEN [k |-> "fin", m |-> 0, e |-> 0]
        ELSE IF e > 0 /\ m % 10 = 0 THEN Norm(m \div 10, e - 1)
        ELSE [k |-> "fin", m |-> m, e |-> e]
      ) : m \in {m0}, e \in {e0} } : TRUE)

Inf(neg) == [k |-> "inf", neg |-> neg]
NaN == [k |-> "nan"]
Ok(v) == [k |-> "ok", v |-> v]
Raise(exc) == [k |-> "raise", exc |-> exc]
IsRaise(v) == v.k = "raise"
IsFinite(v) == v.k = "fin"

\* the decimal literals float() takes: digits [. digits] or . digits
\* (exponents and digit-group underscores are outside the input alphabets)
PointAt(s0) ==
    (CHOOSE only \in { CHOOSE i \in 1..Len(s) : Ch(s, i) = "." : s \in {s0} } : TRUE)
DecimalParts(ip0, fp0) ==
    (CHOOSE only \in { (
        IF AllDigits(ip) /\ AllDigits(fp) /\ Len(ip) + Len(fp) > 0
        THEN Norm(int(ip \o fp), Len(fp)) ELSE Raise("ValueError")
      ) : ip \in {ip0}, fp \in {fp0} } : TRUE)
DecimalAt(s0, p0) ==
    (CHOOSE only \in { (
        DecimalParts(SubSeq(s, 1, p - 1), SubSeq(s, p + 1, Len(s)))
      ) : s \in {s0}, p \in {p0} } : TRUE)
Decimal(s0) ==
    (CHOOSE only \in { (
        IF In(".", s) THEN DecimalAt(s, PointAt(s))
        ELSE IF isdigit(s) THEN Norm(int(s), 0) ELSE Raise("ValueError")
      ) : s \in {s0} } : TRUE)

Neg(v0) ==
    (CHOOSE only \in { (
        CASE v.k = "fin" -> [v EXCEPT !.m = 0 - v.m]
          [] v.k = "inf" -> Inf(~v.neg)
          [] OTHER -> v
      ) : v \in {v0} } : TRUE)

Magnitude(body, lowered0) ==
    (CHOOSE only \in { (
        IF lowered \in {"inf", "infinity"} THEN Inf(FALSE)
        ELSE IF lowered = "nan" THEN NaN
        ELSE Decimal(body)
      ) : lowered \in {lowered0} } : TRUE)
Unsigned(body0) ==
    (CHOOSE only \in { Magnitude(body, lower(body)) : body \in {body0} } : TRUE)
Signed(t0) ==
    (CHOOSE only \in { (
        IF Len(t) > 0 /\ Ch(t, 1) = "-" THEN Neg(Unsigned(Tail1(t)))
        ELSE IF Len(t) > 0 /\ Ch(t, 1) = "+" THEN Unsigned(Tail1(t))
        ELSE Unsigned(t)
      ) : t \in {t0} } : TRUE)

\* float(s): surrounding whitespace is ignored, then an optional sign, then
\* inf / infinity / nan in any letter case or a decimal literal; anything
\* else raises ValueError
float(s) == Signed(strip(s))

NoneF == [k |-> "none"]

\* except (ValueError, AttributeError): return None
caught_clean_numeric(f0) ==
    (CHOOSE only \in { (
        IF IsRaise(f) /\ f.exc \in {"ValueError", "AttributeError"} THEN NoneF ELSE f
      ) : f \in {f0} } : TRUE)

\* value is the stripped text
stripped_clean_numeric(value0) ==
    (CHOOSE only \in { (
        IF In("XXX", upper(value)) \/ value = "" \/ value = "NA" THEN NoneF
        ELSE caught_clean_numeric(
                 float(remove(IF startswith(value, "(") /\ endswith(value, ")")
                              THEN "-" \o SubSeq(value, 2, Len(value) - 1)
                              ELSE value, ",")))
      ) : value \in {value0} } : TRUE)

\* clean_numeric(value)
clean_numeric(value0) ==
    (CHOOSE only \in { (
        IF value = None \/ ~IsStr(value) THEN NoneF
        ELSE stripped_clean_numeric(strip(Text(value)))
      ) : value \in {value0} } : TRUE)

(***************************************************************************)
(* The grid: a row is the sequence of its ss:Cell elements, a cell is its  *)
(* ss:Index attribute (None or the attribute's text) and the text of its   *)
(* ss:Data child (None when the child or its text is absent).              *)
(***************************************************************************)
RECURSIVE str(_)
str(n0) ==
    (CHOOSE only \in { (
        IF n < 10 THEN Ch(Digits, n + 1) ELSE str(n \div 10) \o Ch(Digits, (n % 10) + 1)
      ) : n \in {n0} } : TRUE)

Cell(index, data) == [Index |-> index, Data |-> data]
\* a cell carrying ss:Index = n, and one carrying none
At(n, s) == Cell(Str(str(n)), Str(s))
Nx(s) == Cell(None, Str(s))

\* cell_index is None
NoColumn == 0

\* if idx_attr: current_index = int(idx_attr)
resolved_index(idx_attr0, current_index) ==
    (CHOOSE only \in { (
        IF Truthy(idx_attr) THEN int(Text(idx_attr)) ELSE current_index
      ) : idx_attr \in {idx_attr0} } : TRUE)

\* the text of the cell found: data_element.text.strip(), or None
data_text(data0) ==
    (CHOOSE only \in { (
        IF Truthy(data) THEN Str(strip(Text(data))) ELSE None
      ) : data \in {data0} } : TRUE)

\* current_index += 1, and the loop without it
next_index_no_increment(current_index) == current_index
next_index(current_index) == current_index + 1

\* the loop of get_cell_data from cell number j on, current_index as it
\* stands when that cell is reached
RECURSIVE get_cell_loop(_, _, _, _)
get_cell_loop(cells0, j0, current_index0, cell_index0) ==
    (CHOOSE only \in { (
        IF j > Len(cells) THEN None
        ELSE IF resolved_index(cells[j].Index, current_index) = cell_index
        THEN data_text(cells[j].Data)
        ELSE get_cell_loop(cells, j + 1,
                 next_index(resolved_index(cells[j].Index, current_index)), cell_index)
      ) : cells \in {cells0}, j \in {j0}, current_index \in {current_index0},
          cell_index \in {cell_index0} } : TRUE)

\* get_cell_data(row_element, cell_index, ns)
get_cell_data(row_element, cell_index0) ==
    (CHOOSE only \in { (
        IF cell_index = NoColumn THEN None
        ELSE get_cell_loop(row_element, 1, 1, cell_index)
      ) : cell_index \in {cell_index0} } : TRUE)

(***************************************************************************)
(* A worksheet is its ss:Name attribute (None when absent) and its rows,   *)
(* as worksheet.findall('.//ss:Row') lists them.                           *)
(***************************************************************************)
Worksheet(name, rows) == [Name |-> name, rows |-> rows]

\* the first of a set of positions
Least(S0) ==
    (CHOOSE only \in { CHOOSE i \in S : \A h \in S : i <= h : S \in {S0} } : TRUE)

\* rows[:n]
Take(rows, n) == SubSeq(rows, 1, Min(n, Len(rows)))

\* the two tests in the other order
marker_in_schedule_first(text0) ==
    (CHOOSE only \in { (
        IF In("SCHEDULE P - PART 1", text) THEN Str("ScheduleP")
        ELSE IF In("EXHIBIT OF PREMIUMS AND LOSSES", text) THEN Str("Page19")
        ELSE None
      ) : text \in {text0} } : TRUE)

\* the two tests of identify_report_type on a cell's uppercased text
marker_in(text0) ==
    (CHOOSE only \in { (
        IF In("EXHIBIT OF PREMIUMS AND LOSSES", text) THEN Str("Page19")
        ELSE IF In("SCHEDULE P - PART 1", text) THEN Str("ScheduleP")
        ELSE None
      ) : text \in {text0} } : TRUE)

\* if cell_text: text = cell_text.upper() ...
marker_of(cell_text0) ==
    (CHOOSE only \in { (
        IF Truthy(cell_text) THEN marker_in(upper(Text(cell_text))) ELSE None
      ) : cell_text \in {cell_text0} } : TRUE)

\* the inner loop of identify_report_type on one row: for i in range(1, 5),
\* the loop returns at the first column whose cell holds a marker
row_marker(row0) ==
    (CHOOSE only \in { (
        IF marked = {} THEN None ELSE marker_of(get_cell_data(row, Least(marked)))
      ) : row \in {row0},
          marked \in {{i \in 1..4 : marker_of(get_cell_data(row0, i)) # None}} } : TRUE)

\* identify_report_type(rows, ns): for row in rows[:5], the first row whose
\* inner loop returns
identify_report_type(rows0) ==
    (CHOOSE only \in { (
        IF marked = {} THEN None ELSE row_marker(rows[Least(marked)])
      ) : rows \in {rows0},
          marked \in {{r \in 1..Len(Take(rows0, 5)) : row_marker(rows0[r]) # None}} } : TRUE)

\* Check 1 of identify_sched_p_lob on the uppercased header text
lob_in_header(header_text_upper0) ==
    (CHOOSE only \in { (
        IF In("COMMERCIAL AUTO LIABILITY", header_text_upper) THEN Str("AL")
        ELSE IF In("AUTO PHYSICAL DAMAGE", header_text_upper) THEN Str("APD")
        ELSE IF In("SUMMARY", header_text_upper) THEN Str("SUMMARY")
        ELSE None
      ) : header_text_upper \in {header_text_upper0} } : TRUE)

\* if len(rows) >= 3: header_text = get_cell_data(rows[2], 1, ns) ...
header_lob(rows0) ==
    (CHOOSE only \in { (
        IF Len(rows) >= 3 /\ Truthy(get_cell_data(rows[3], 1))
        THEN lob_in_header(upper(Text(get_cell_data(rows[3], 1))))
        ELSE None
      ) : rows \in {rows0} } : TRUE)

\* Checks 2 and 3 of identify_sched_p_lob on the uppercased sheet name
lob_in_name(sheet_name0) ==
    (CHOOSE only \in { (
        IF In("COMM'L AUTO L", sheet_name) THEN Str("AL")
        ELSE IF In("AUTO PHYS", sheet_name) THEN Str("APD")
        ELSE IF In("PG33", sheet_name) THEN Str("SUMMARY")
        ELSE None
      ) : sheet_name \in {sheet_name0} } : TRUE)

\* the name is read only when Check 1 returned nothing; worksheet.get(Name)
\* is None when the attribute is absent, and None.upper() raises
named_identify_sched_p_lob(from_header0, name0) ==
    (CHOOSE only \in { (
        IF from_header # None THEN Ok(from_header)
        ELSE IF name = None THEN Raise("AttributeError")
        ELSE Ok(lob_in_name(upper(Text(name))))
      ) : from_header \in {from_header0}, name \in {name0} } : TRUE)

\* identify_sched_p_lob(worksheet, rows, ns)
identify_sched_p_lob(worksheet, rows) ==
    named_identify_sched_p_lob(header_lob(rows), worksheet.Name)

\* SchedP_LOB_Test.py, Logic Check 1: assigned_lob and is_summary
test_header_check(header_row_text0) ==
    (CHOOSE only \in { (
        IF ~Truthy(header_row_text) THEN None
        ELSE lob_in_header(upper(Text(header_row_text)))
      ) : header_row_text \in {header_row_text0} } : TRUE)

\* Logic Check 2 (the tab name, when assigned_lob is None) and the result
\* printed: PROCESSED with the LOB, or SKIPPED
test_name_check(check10, sheet_name_upper0) ==
    (CHOOSE only \in { (
        LET assigned_lob ==
                IF check1 \in {Str("AL"), Str("APD")} THEN check1
                ELSE IF In("COMM'L AUTO L", sheet_name_upper) THEN Str("AL")
                ELSE IF In("AUTO PHYS", sheet_name_upper) THEN Str("APD")
                ELSE None
        IN  IF check1 = Str("SUMMARY") THEN [status |-> "SKIPPED", lob |-> None]
            ELSE IF assigned_lob # None THEN [status |-> "PROCESSED", lob |-> assigned_lob]
            ELSE [status |-> "SKIPPED", lob |-> None]
      ) : check1 \in {check10}, sheet_name_upper \in {sheet_name_upper0} } : TRUE)

\* test_schedule_p_lob_identification(worksheet, ns)
test_schedule_p_lob_identification(worksheet0) ==
    (CHOOSE only \in { (
        IF Len(worksheet.rows) < 3 THEN Ok([status |-> "SKIPPED", lob |-> None])
        ELSE IF worksheet.Name = None THEN Raise("AttributeError")
        ELSE Ok(test_name_check(test_header_check(get_cell_data(worksheet.rows[3], 1)),
                                upper(Text(worksheet.Name))))
      ) : worksheet \in {worksheet0} } : TRUE)

(***************************************************************************)
(* float arithmetic used by the premium-exhibit extractor                  *)
(***************************************************************************)
Pow10(n) == 10 ^ n

Abs(n0) ==
    (CHOOSE only \in { IF n < 0 THEN 0 - n ELSE n : n \in {n0} } : TRUE)

\* q tenths and r / scale of a tenth, rounded to tenths: a tie goes to the
\* even tenth, which is what Python does for the ties a double holds
\* exactly (x.25, x.75)
RoundTenths(q0, r0, scale0, negative) ==
    (CHOOSE only \in { (
        LET t == IF 2 * r > scale \/ (2 * r = scale /\ q % 2 = 1) THEN q + 1 ELSE q
        IN  Norm(IF negative THEN 0 - t ELSE t, 1)
      ) : q \in {q0}, r \in {r0}, scale \in {scale0} } : TRUE)

\* round(x, 1)
round1(x0) ==
    (CHOOSE only \in { (
        IF x.k # "fin" \/ x.e <= 1 THEN x
        ELSE RoundTenths(Abs(x.m) \div Pow10(x.e - 1), Abs(x.m) % Pow10(x.e - 1),
                         Pow10(x.e - 1), x.m < 0)
      ) : x \in {x0} } : TRUE)

\* a + b
Add(a0, b0) ==
    (CHOOSE only \in { (
        IF a.k = "nan" \/ b.k = "nan" THEN NaN
        ELSE IF a.k = "inf" /\ b.k = "inf" THEN (IF a.neg = b.neg THEN a ELSE NaN)
        ELSE IF a.k = "inf" THEN a
        ELSE IF b.k = "inf" THEN b
        ELSE LET e == IF a.e > b.e THEN a.e ELSE b.e
             IN  Norm(a.m * Pow10(e - a.e) + b.m * Pow10(e - b.e), e)
      ) : a \in {a0}, b \in {b0} } : TRUE)

Zero == Norm(0, 0)
\* x or 0: None and 0.0 are false
OrZero(x0) ==
    (CHOOSE only \in { IF x.k = "none" THEN Zero ELSE x : x \in {x0} } : TRUE)

(***************************************************************************)
(* re.search(r"(\d{4}) OF THE (.*?) ?(?:\(NAIC #(\S+)\))?$", header_string) *)
(***************************************************************************)
NoSpace(s0) ==
    (CHOOSE only \in { \A i \in 1..Len(s) : ~IsSpace(Ch(s, i)) : s \in {s0} } : TRUE)
\* \(NAIC #(\S+)\) up to the end of the string
NaicTail(t0) ==
    (CHOOSE only \in { (
        /\ startswith(t, "(NAIC #") /\ endswith(t, ")") /\ Len(t) >= 9
        /\ NoSpace(SubSeq(t, 8, Len(t) - 1))
      ) : t \in {t0} } : TRUE)
\*  ?(?:\(NAIC #(\S+)\))?$
TailMatches(t0) ==
    (CHOOSE only \in { (
        \/ t = "" \/ t = " " \/ NaicTail(t)
        \/ (startswith(t, " ") /\ NaicTail(Tail1(t)))
      ) : t \in {t0} } : TRUE)
\* (\d{4}) OF THE at position i
StartsAt(s0, i0) ==
    (CHOOSE only \in { (
        /\ i + 11 <= Len(s)
        /\ AllDigits(SubSeq(s, i, i + 3))
        /\ SubSeq(s, i + 4, i + 11) = " OF THE "
      ) : s \in {s0}, i \in {i0} } : TRUE)
HeaderMatches(s0) ==
    (CHOOSE only \in { \E i \in 1..Len(s) : StartsAt(s, i) : s \in {s0} } : TRUE)
\* where the leftmost match starts
MatchStart(s0) ==
    (CHOOSE only \in { (
        CHOOSE i \in 1..Len(s) : StartsAt(s, i) /\ \A h \in 1..(i - 1) : ~StartsAt(s, h)
      ) : s \in {s0} } : TRUE)
\* the length of group 2: the shortest that lets the rest of the pattern match
LazyLength(rest0) ==
    (CHOOSE only \in { (
        CHOOSE j \in 0..Len(rest) :
            /\ TailMatches(SubSeq(rest, j + 1, Len(rest)))
            /\ \A h \in 0..(j - 1) : ~TailMatches(SubSeq(rest, h + 1, Len(rest)))
      ) : rest \in {rest0} } : TRUE)
\* group 3 is None when the NAIC suffix is absent
GroupsTail(g10, g20, tail0) ==
    (CHOOSE only \in { (
        [g1 |-> g1, g2 |-> g2,
         g3 |-> IF NaicTail(tail) THEN Str(SubSeq(tail, 8, Len(tail) - 1)) ELSE None]
      ) : g1 \in {g10}, g2 \in {g20}, tail \in {tail0} } : TRUE)
GroupsSplit(g1, rest0, j0) ==
    (CHOOSE only \in { (
        GroupsTail(g1, SubSeq(rest, 1, j), lstrip(SubSeq(rest, j + 1, Len(rest))))
      ) : rest \in {rest0}, j \in {j0} } : TRUE)
GroupsRest(g1, rest0) ==
    (CHOOSE only \in { GroupsSplit(g1, rest, LazyLength(rest)) : rest \in {rest0} } : TRUE)
GroupsAt(s0, i0) ==
    (CHOOSE only \in { (
        GroupsRest(SubSeq(s, i, i + 3), SubSeq(s, i + 12, Len(s)))
      ) : s \in {s0}, i \in {i0} } : TRUE)
HeaderGroups(s0) ==
    (CHOOSE only \in { GroupsAt(s, MatchStart(s)) : s \in {s0} } : TRUE)

\* year, company_name, naic = int(group 1), group 2 stripped, group 3 without
\* its ')' or "N/A"
FieldsOf(g0) ==
    (CHOOSE only \in { (
        [year |-> int(g.g1), company_name |-> strip(g.g2),
         naic |-> IF Truthy(g.g3) THEN stripCh(Text(g.g3), ")") ELSE "N/A"]
      ) : g \in {g0} } : TRUE)
HeaderFields(s) == FieldsOf(HeaderGroups(s))

(***************************************************************************)
(* Premium exhibit ("Page 19")                                             *)
(***************************************************************************)
\* dict.get(key): None when the key is absent
Get(d0, key0) ==
    (CHOOSE only \in { (
        IF key \in DOMAIN d THEN d[key] ELSE NoColumn
      ) : d \in {d0}, key \in {key0} } : TRUE)
EmptyDict == <<>>
\* the cell walk of find_page19_header_map over number_row, from cell j on:
\* every cell whose stripped text is all digits maps its number to the
\* cell's resolved index
RECURSIVE number_row_walk(_, _, _, _)
number_row_walk(cells0, j0, current_index0, map0) ==
    (CHOOSE only \in { (
        IF j > Len(cells) THEN map
        ELSE number_row_walk(cells, j + 1,
                 resolved_index(cells[j].Index, current_index) + 1,
                 IF Truthy(cells[j].Data) /\ isdigit(strip(Text(cells[j].Data)))
                 THEN (int(strip(Text(cells[j].Data)))
                          :> resolved_index(cells[j].Index, current_index)) @@ map
                 ELSE map)
      ) : cells \in {cells0}, j \in {j0}, current_index \in {current_index0},
          map \in {map0} } : TRUE)

\* cell_1_text == '1' and cell_2_text == '2'
IsNumberRow(row0) ==
    (CHOOSE only \in { (
        get_cell_data(row, 8) = Str("1") /\ get_cell_data(row, 9) = Str("2")
      ) : row \in {row0} } : TRUE)

\* the return value of find_page19_header_map
translated_find_page19_header_map(number_to_ss_index_map0) ==
    (CHOOSE only \in { (
        IF DOMAIN number_to_ss_index_map = {} THEN EmptyDict
        ELSE [f \in {"Direct Premiums Written", "Direct Premiums Earned",
                     "Direct Losses Incurred",
                     "Direct Defense and Cost Containment Expense Incurred"} |->
                Get(number_to_ss_index_map,
                    CASE f = "Direct Premiums Written" -> 1
                      [] f = "Direct Premiums Earned" -> 2
                      [] f = "Direct Losses Incurred" -> 6
                      [] OTHER -> 9)]
      ) : number_to_ss_index_map \in {number_to_ss_index_map0} } : TRUE)

\* anchors: the rows of rows[:10] that are number rows; the first is walked
anchored_find_page19_header_map(rows, anchors0) ==
    (CHOOSE only \in { (
        translated_find_page19_header_map(
            IF anchors = {} THEN EmptyDict
            ELSE number_row_walk(rows[Least(anchors)], 1, 1, EmptyDict))
      ) : anchors \in {anchors0} } : TRUE)

\* find_page19_header_map(rows, ns)
find_page19_header_map(rows0) ==
    (CHOOSE only \in { (
        anchored_find_page19_header_map(rows,
            {i \in 1..Len(Take(rows, 10)) : IsNumberRow(rows[i])})
      ) : rows \in {rows0} } : TRUE)

\* state = state_val.strip().upper(), "GRAND_TOTAL" when it holds GRAND TOTAL
state_of(state0) ==
    (CHOOSE only \in { (
        IF In("GRAND TOTAL", state) THEN "GRAND_TOTAL" ELSE state
      ) : state \in {state0} } : TRUE)

\* for j in range(3, 10): the first column of the label row whose cell holds
\* more than blanks gives the state, and the state stays GRAND_TOTAL when
\* there is none
has_state(state_val0) ==
    (CHOOSE only \in { (
        Truthy(state_val) /\ strip(Text(state_val)) # ""
      ) : state_val \in {state_val0} } : TRUE)
state_scan(row0) ==
    (CHOOSE only \in { (
        IF valued = {} THEN "GRAND_TOTAL"
        ELSE state_of(upper(strip(Text(get_cell_data(row, Least(valued))))))
      ) : row \in {row0},
          valued \in {{j \in 3..9 : has_state(get_cell_data(row0, j))}} } : TRUE)

has_state_label(cell_text0) ==
    (CHOOSE only \in { (
        Truthy(cell_text) /\ In("DIRECT BUSINESS IN THE STATE OF", upper(Text(cell_text)))
      ) : cell_text \in {cell_text0} } : TRUE)
IsStateLabelRow(row) == has_state_label(get_cell_data(row, 2))

labelled_page19_state(all_rows, labels0) ==
    (CHOOSE only \in { (
        IF labels = {} THEN "GRAND_TOTAL" ELSE state_scan(all_rows[Least(labels)])
      ) : labels \in {labels0} } : TRUE)

page19_state(all_rows0) ==
    (CHOOSE only \in { (
        labelled_page19_state(all_rows,
            {i \in 1..Len(Take(all_rows, 5)) : IsStateLabelRow(all_rows[i])})
      ) : all_rows \in {all_rows0} } : TRUE)

\* the line of business of a row: lob_code and liability_type, None when the
\* rounded number is not one of the three, "continue" when float() raises
F19_3 == Norm(193, 1)
F19_4 == Norm(194, 1)
F21_2 == Norm(212, 1)
lob_of_rounded(rounded_lob0) ==
    (CHOOSE only \in { (
        IF rounded_lob = F19_3 THEN [lob_code |-> Str("19.3"), liability_type |-> Str("AL")]
        ELSE IF rounded_lob = F19_4 THEN [lob_code |-> Str("19.4"), liability_type |-> Str("AL")]
        ELSE IF rounded_lob = F21_2 THEN [lob_code |-> Str("21.2"), liability_type |-> Str("APD")]
        ELSE [lob_code |-> None, liability_type |-> None]
      ) : rounded_lob \in {rounded_lob0} } : TRUE)
lob_of_float(lob_float0) ==
    (CHOOSE only \in { (
        IF IsRaise(lob_float) THEN [lob_code |-> Str("continue"), liability_type |-> None]
        ELSE lob_of_rounded(round1(lob_float))
      ) : lob_float \in {lob_float0} } : TRUE)
page19_lob(lob_identifier) == lob_of_float(float(strip(Text(lob_identifier))))

\* gwp, ep, losses, dcc: clean_numeric of data_row's cell in each mapped column
numeric_fields(data_row, header_map0) ==
    (CHOOSE only \in { (
        [f \in DOMAIN header_map |-> clean_numeric(get_cell_data(data_row, header_map[f]))]
      ) : header_map \in {header_map0} } : TRUE)

record_of_fields(h0, state, lob0, n0) ==
    (CHOOSE only \in { (
        [YEAR |-> h.year, Compan_Name |-> h.company_name, NAIC |-> h.naic,
         State |-> state, Liability |-> Text(lob.liability_type),
         LOB |-> Text(lob.lob_code),
         GWP |-> n["Direct Premiums Written"], EP |-> n["Direct Premiums Earned"],
         LOSSES_INCURRED |->
             Add(OrZero(n["Direct Losses Incurred"]),
                 OrZero(n["Direct Defense and Cost Containment Expense Incurred"])),
         DIRECT_LOSSES_INC |-> n["Direct Losses Incurred"],
         DCC |-> n["Direct Defense and Cost Containment Expense Incurred"]]
      ) : h \in {h0}, lob \in {lob0}, n \in {n0} } : TRUE)

\* the record process_page19_worksheet appends for a row
page19_record(h, state, header_map, lob, data_row) ==
    record_of_fields(h, state, lob, numeric_fields(data_row, header_map))

\* which row the numbers of the record of row i (1-based) are read from:
\* all_rows[i+1] for 19.3, the row itself otherwise
page19_data_row_index(i0, lob_code) ==
    (CHOOSE only \in { IF lob_code = Str("19.3") THEN i + 1 ELSE i : i \in {i0} } : TRUE)

\* one pass of the row loop of process_page19_worksheet, on row i: the record
\* it appends, nothing (no lob_identifier, continue, or a code that is not
\* one of the three), or the IndexError of all_rows[i+1] past the last row
Appended(record) == [k |-> "appended", v |-> record]
NotAppended == [k |-> "nothing"]
lob_page19_row(all_rows0, i0, h, state, header_map, lob0) ==
    (CHOOSE only \in { (
        IF lob.lob_code = Str("continue") \/ lob.lob_code = None THEN NotAppended
        ELSE IF page19_data_row_index(i, lob.lob_code) > Len(all_rows)
        THEN Raise("IndexError")
        ELSE Appended(page19_record(h, state, header_map, lob,
                                    all_rows[page19_data_row_index(i, lob.lob_code)]))
      ) : all_rows \in {all_rows0}, i \in {i0}, lob \in {lob0} } : TRUE)

page19_row(all_rows, i, h, state, header_map, lob_identifier0) ==
    (CHOOSE only \in { (
        IF ~Truthy(lob_identifier) THEN NotAppended
        ELSE lob_page19_row(all_rows, i, h, state, header_map, page19_lob(lob_identifier))
      ) : lob_identifier \in {lob_identifier0} } : TRUE)

\* what a loop inside the try block of an extractor leaves: the records its
\* passes appended, in order, or, when a pass raised, the [] the except
\* clause returns, with the exception it logged
IsAppended(pass) == pass.k = "appended"
passes_outcome(passes0) ==
    (CHOOSE only \in { (
        IF raised # {} THEN [records |-> <<>>, error |-> Str(passes[Least(raised)].exc)]
        ELSE [records |-> [n \in 1..Len(appended) |-> appended[n].v], error |-> None]
      ) : passes \in {passes0},
          raised \in {{i \in 1..Len(passes0) : IsRaise(passes0[i])}},
          appended \in {SelectSeq(passes0, IsAppended)} } : TRUE)

\* the row loop of process_page19_worksheet
page19_rows(all_rows0, h0, state0, header_map0) ==
    (CHOOSE only \in { (
        passes_outcome([i \in 1..Len(all_rows) |->
            page19_row(all_rows, i, h, state, header_map, get_cell_data(all_rows[i], 2))])
      ) : all_rows \in {all_rows0}, h \in {h0}, state \in {state0},
          header_map \in {header_map0} } : TRUE)

NoRecords == [records |-> <<>>, error |-> None]

\* if not header_map or any(v is None for v in header_map.values()): return []
mapped_process_page19_worksheet(all_rows, h, state, header_map0) ==
    (CHOOSE only \in { (
        IF DOMAIN header_map = {} \/ \E f \in DOMAIN header_map : header_map[f] = NoColumn
        THEN NoRecords
        ELSE page19_rows(all_rows, h, state, header_map)
      ) : header_map \in {header_map0} } : TRUE)

\* if not header_string: return [] ... if not match: return []
headed_process_page19_worksheet(all_rows0, header_string0) ==
    (CHOOSE only \in { (
        IF ~Truthy(header_string) THEN NoRecords
        ELSE IF ~HeaderMatches(Text(header_string)) THEN NoRecords
        ELSE mapped_process_page19_worksheet(all_rows, HeaderFields(Text(header_string)),
                 page19_state(all_rows), find_page19_header_map(all_rows))
      ) : all_rows \in {all_rows0}, header_string \in {header_string0} } : TRUE)

\* process_page19_worksheet(worksheet, ns): the list it returns, and the
\* exception its except clause logged (None when none was raised)
process_page19_worksheet(worksheet0) ==
    (CHOOSE only \in { (
        IF Len(worksheet.rows) = 0 THEN NoRecords
        ELSE headed_process_page19_worksheet(worksheet.rows,
                                             get_cell_data(worksheet.rows[1], 2))
      ) : worksheet \in {worksheet0} } : TRUE)

(***************************************************************************)
(* Schedule P                                                              *)
(***************************************************************************)
targets_to_find == {"1", "25", "26"}

\* if text in targets_to_find and text not in found_targets: ...
\* st is number_to_ss_index_map and found_targets
noted_target(st0, text0, current_index) ==
    (CHOOSE only \in { (
        IF text \in targets_to_find /\ text \notin st.found
        THEN [map |-> (int(text) :> current_index) @@ st.map, found |-> st.found \cup {text}]
        ELSE st
      ) : st \in {st0}, text \in {text0} } : TRUE)

\* the cell walk of find_schedule_p_headers over one row, from cell j on
RECURSIVE sched_p_row_walk(_, _, _, _)
sched_p_row_walk(cells0, j0, current_index0, st0) ==
    (CHOOSE only \in { (
        IF j > Len(cells) THEN st
        ELSE sched_p_row_walk(cells, j + 1,
                 resolved_index(cells[j].Index, current_index) + 1,
                 IF Truthy(cells[j].Data)
                 THEN noted_target(st, strip(Text(cells[j].Data)),
                                   resolved_index(cells[j].Index, current_index))
                 ELSE st)
      ) : cells \in {cells0}, j \in {j0}, current_index \in {current_index0},
          st \in {st0} } : TRUE)

\* the row loop of find_schedule_p_headers over rows[:50], from row r on;
\* the break that ends a pass once every target is found is tested on
\* entering the next
RECURSIVE sched_p_header_scan(_, _, _)
sched_p_header_scan(rows0, r0, st0) ==
    (CHOOSE only \in { (
        IF r > Len(Take(rows, 50)) THEN st
        ELSE IF Cardinality(st.found) = Cardinality(targets_to_find) THEN st
        ELSE sched_p_header_scan(rows, r + 1, sched_p_row_walk(rows[r], 1, 1, st))
      ) : rows \in {rows0}, r \in {r0}, st \in {st0} } : TRUE)

\* the return value of find_schedule_p_headers
translated_find_schedule_p_headers(st0) ==
    (CHOOSE only \in { (
        IF Cardinality(st.found) # Cardinality(targets_to_find) THEN EmptyDict
        ELSE [f \in {"EP", "LOSSES_INC", "CLAIMS"} |->
                Get(st.map, CASE f = "EP" -> 1 [] f = "LOSSES_INC" -> 26 [] OTHER -> 25)]
      ) : st \in {st0} } : TRUE)

\* find_schedule_p_headers(rows, ns)
find_schedule_p_headers(rows) ==
    translated_find_schedule_p_headers(
        sched_p_header_scan(rows, 1, [map |-> EmptyDict, found |-> {}]))

\* if year_val and "Prior" in year_val
is_prior(year_val0) ==
    (CHOOSE only \in { (
        Truthy(year_val) /\ In("Prior", Text(year_val))
      ) : year_val \in {year_val0} } : TRUE)

\* the rows whose column 3 holds "Prior", in document order (1-based)
prior_rows(all_rows0) ==
    (CHOOSE only \in { (
        SelectSeq([i \in 1..Len(all_rows) |-> i],
                  LAMBDA i : is_prior(get_cell_data(all_rows[i], 3)))
      ) : all_rows \in {all_rows0} } : TRUE)

\* a variant that reads the losses incurred from the claim-count block
sched_p_block_losses_from_claims(f0) ==
    (CHOOSE only \in { (
        CASE f = "EP" -> 1 [] OTHER -> 2
      ) : f \in {f0} } : TRUE)

\* the record process_schedule_p_worksheet appends for offset i: block b of
\* starts (1 earned premium, 2 claim count, 3 losses incurred) gives the row
\* of each number
sched_p_block(f0) ==
    (CHOOSE only \in { (
        CASE f = "EP" -> 1 [] f = "CLAIMS" -> 2 [] OTHER -> 3
      ) : f \in {f0} } : TRUE)

sched_p_numbers(all_rows, i, starts, column_map) ==
    [f \in {"EP", "LOSSES_INC", "CLAIMS"} |->
        clean_numeric(get_cell_data(all_rows[starts[sched_p_block(f)] + i],
                                    column_map[f]))]

sched_p_record(h0, lob, year, n0) ==
    (CHOOSE only \in { (
        [REPORT_YEAR |-> h.year, Company_Name |-> h.company_name, NAIC |-> h.naic,
         LOB |-> lob, YEAR |-> Text(year),
         EP |-> n["EP"], LOSSES_INC |-> n["LOSSES_INC"], CLAIMS |-> n["CLAIMS"]]
      ) : h \in {h0}, n \in {n0} } : TRUE)

\* one pass of the loop over range(12), for offset i: the record it appends,
\* nothing (no year), or the KeyError of column_map["EP"] on an empty
\* column_map
sched_p_offset(all_rows, i, starts, h, lob, column_map0, year0) ==
    (CHOOSE only \in { (
        IF ~Truthy(year) THEN NotAppended
        ELSE IF "EP" \notin DOMAIN column_map THEN Raise("KeyError")
        ELSE Appended(sched_p_record(h, lob, year,
                                     sched_p_numbers(all_rows, i, starts, column_map)))
      ) : column_map \in {column_map0}, year \in {year0} } : TRUE)

\* the loop over range(12); starts are the first three "Prior" rows, and the
\* loop breaks at the first offset that takes one of them past the last row
sched_p_offsets(all_rows0, starts0, h0, lob0, column_map0) ==
    (CHOOSE only \in { (
        passes_outcome([n \in 1..Cardinality({i \in 0..11 :
                                  \A b \in 1..3 : starts[b] + i <= Len(all_rows)}) |->
            sched_p_offset(all_rows, n - 1, starts, h, lob, column_map,
                           get_cell_data(all_rows[starts[1] + n - 1], 3))])
      ) : all_rows \in {all_rows0}, starts \in {starts0}, h \in {h0}, lob \in {lob0},
          column_map \in {column_map0} } : TRUE)

\* not all(column_map.values()): some value is None or 0; all() of no value
\* at all is True
column_map_incomplete(column_map0) ==
    (CHOOSE only \in { (
        ~(\A f \in DOMAIN column_map : column_map[f] # NoColumn)
      ) : column_map \in {column_map0} } : TRUE)

\* if len(prior_row_indices) < 3: return []
anchored_process_schedule_p_worksheet(all_rows, lob, h, column_map, prior_row_indices0) ==
    (CHOOSE only \in { (
        IF Len(prior_row_indices) < 3 THEN NoRecords
        ELSE sched_p_offsets(all_rows, prior_row_indices, h, lob, column_map)
      ) : prior_row_indices \in {prior_row_indices0} } : TRUE)

\* if not all(column_map.values()): return []
mapped_process_schedule_p_worksheet(all_rows0, lob, h, column_map0) ==
    (CHOOSE only \in { (
        IF column_map_incomplete(column_map) THEN NoRecords
        ELSE anchored_process_schedule_p_worksheet(all_rows, lob, h, column_map,
                                                   prior_rows(all_rows))
      ) : all_rows \in {all_rows0}, column_map \in {column_map0} } : TRUE)

\* if not header_string: return [] ... if not match: return []
headed_process_schedule_p_worksheet(all_rows0, lob, header_string0) ==
    (CHOOSE only \in { (
        IF ~Truthy(header_string) THEN NoRecords
        ELSE IF ~HeaderMatches(Text(header_string)) THEN NoRecords
        ELSE mapped_process_schedule_p_worksheet(all_rows, lob,
                 HeaderFields(Text(header_string)), find_schedule_p_headers(all_rows))
      ) : all_rows \in {all_rows0}, header_string \in {header_string0} } : TRUE)

\* process_schedule_p_worksheet(worksheet, ns, lob)
process_schedule_p_worksheet(worksheet0, lob) ==
    (CHOOSE only \in { (
        IF Len(worksheet.rows) = 0 THEN NoRecords
        ELSE headed_process_schedule_p_worksheet(worksheet.rows, lob,
                                                 get_cell_data(worksheet.rows[1], 2))
      ) : worksheet \in {worksheet0} } : TRUE)

(***************************************************************************)
(* Final output generation: drop_duplicates and sort_values                *)
(***************************************************************************)
\* the ASCII characters the texts are made of, in code-point order
Ascii == " #&'()+,-./0123456789:;<=>?@ABCDEFGHIJKLMNOPQRSTUVWXYZ_abcdefghijklmnopqrstuvwxyz"
Ord(c) == PosIn(c, Ascii)

\* a < b on str: a is a proper prefix of b, or the first character in which
\* they differ is the smaller one in a
StrLess(a0, b0) ==
    (CHOOSE only \in { (
        \/ Len(a) < Len(b) /\ SubSeq(b, 1, Len(a)) = a
        \/ \E i \in 1..Min(Len(a), Len(b)) :
               /\ SubSeq(a, 1, i - 1) = SubSeq(b, 1, i - 1)
               /\ Ord(Ch(a, i)) < Ord(Ch(b, i))
      ) : a \in {a0}, b \in {b0} } : TRUE)

\* subset=['NAIC', 'YEAR', 'State', 'LOB']
dedup_key(r) == <<r.NAIC, r.YEAR, r.State, r.LOB>>

\* keep='last': a row stays when no later row has its key
drop_duplicates_keep_last(rows0) ==
    (CHOOSE only \in { (
        LET keep == {i \in 1..Len(rows) :
                        \A h \in (i + 1)..Len(rows) : dedup_key(rows[h]) # dedup_key(rows[i])}
            F[i \in 0..Len(rows)] ==
                IF i = 0 THEN <<>>
                ELSE IF i \in keep THEN Append(F[i - 1], rows[i]) ELSE F[i - 1]
        IN  F[Len(rows)]
      ) : rows \in {rows0} } : TRUE)

\* pg19_df.drop_duplicates(subset=..., keep='first'): a row stays when no
\* earlier row has its key; the rows that stay keep their order
drop_duplicates(rows0) ==
    (CHOOSE only \in { (
        LET keep == {i \in 1..Len(rows) :
                        \A h \in 1..(i - 1) : dedup_key(rows[h]) # dedup_key(rows[i])}
            F[i \in 0..Len(rows)] ==
                IF i = 0 THEN <<>>
                ELSE IF i \in keep THEN Append(F[i - 1], rows[i]) ELSE F[i - 1]
        IN  F[Len(rows)]
      ) : rows \in {rows0} } : TRUE)

\* by=["Compan_Name", "YEAR", "State", "Liability", "LOB"]
page19_less(a, b) ==
    IF a.Compan_Name # b.Compan_Name THEN StrLess(a.Compan_Name, b.Compan_Name)
    ELSE IF a.YEAR # b.YEAR THEN a.YEAR < b.YEAR
    ELSE IF a.State # b.State THEN StrLess(a.State, b.State)
    ELSE IF a.Liability # b.Liability THEN StrLess(a.Liability, b.Liability)
    ELSE StrLess(a.LOB, b.LOB)

\* by=["Company_Name", "REPORT_YEAR", "LOB", "YEAR"]
sched_p_less(a, b) ==
    IF a.Company_Name # b.Company_Name THEN StrLess(a.Company_Name, b.Company_Name)
    ELSE IF a.REPORT_YEAR # b.REPORT_YEAR THEN a.REPORT_YEAR < b.REPORT_YEAR
    ELSE IF a.LOB # b.LOB THEN StrLess(a.LOB, b.LOB)
    ELSE StrLess(a.YEAR, b.YEAR)

page19_by == <<"Compan_Name", "YEAR", "State", "Liability", "LOB">>
sched_p_by == <<"Company_Name", "REPORT_YEAR", "LOB", "YEAR">>
row_less(a, b, by) == IF by = page19_by THEN page19_less(a, b) ELSE sched_p_less(a, b)

\* how many rows go before row i: the rows that are less than it and the
\* equal rows before it
sort_rank(rows, by, i) ==
    Cardinality({h \in 1..Len(rows) :
                    \/ row_less(rows[h], rows[i], by)
                    \/ (h < i /\ ~row_less(rows[i], rows[h], by))})

\* sort_values(by=[...]) on several columns: a stable sort, so rows whose
\* sort columns are equal keep their order
sort_values(rows0, by) ==
    (CHOOSE only \in { (
        [p \in 1..Len(rows) |->
            rows[CHOOSE i \in 1..Len(rows) : sort_rank(rows, by, i) = p - 1]]
      ) : rows \in {rows0} } : TRUE)

(***************************************************************************)
(* The main script                                                         *)
(***************************************************************************)
\* what one pass of the worksheet loop body adds to the two lists, the
\* exception that escapes the body (None when none does) and the exception a
\* process_* function logged itself
Nothing == [page19 |-> <<>>, sched_p |-> <<>>, raised |-> None, logged |-> None]
extend_page19(p0) ==
    (CHOOSE only \in { (
        [Nothing EXCEPT !.page19 = p.records, !.logged = p.error]
      ) : p \in {p0} } : TRUE)
extend_sched_p(p0) ==
    (CHOOSE only \in { (
        [Nothing EXCEPT !.sched_p = p.records, !.logged = p.error]
      ) : p \in {p0} } : TRUE)

\* lob = identify_sched_p_lob(...); if lob in ["AL", "APD"]: ... else: skip
lob_worksheet_body(worksheet, lob0) ==
    (CHOOSE only \in { (
        IF IsRaise(lob) THEN [Nothing EXCEPT !.raised = Str(lob.exc)]
        ELSE IF lob.v \in {Str("AL"), Str("APD")}
        THEN extend_sched_p(process_schedule_p_worksheet(worksheet, Text(lob.v)))
        ELSE Nothing
      ) : lob \in {lob0} } : TRUE)

\* if report_type == "Page19": ... elif report_type == "ScheduleP": ...
typed_worksheet_body(worksheet0, report_type0) ==
    (CHOOSE only \in { (
        IF report_type = Str("Page19")
        THEN extend_page19(process_page19_worksheet(worksheet))
        ELSE IF report_type = Str("ScheduleP")
        THEN lob_worksheet_body(worksheet, identify_sched_p_lob(worksheet, worksheet.rows))
        ELSE Nothing
      ) : worksheet \in {worksheet0}, report_type \in {report_type0} } : TRUE)

worksheet_body(worksheet0) ==
    (CHOOSE only \in { (
        typed_worksheet_body(worksheet, identify_report_type(worksheet.rows))
      ) : worksheet \in {worksheet0} } : TRUE)

Entry(level, event, i) == [level |-> level, event |-> event, file |-> i]

\* except Exception as e: logging.critical(...), and the for loop goes on
\* with the next file
except_Exception_abort(i) ==
    [pc |-> "crashed", file_i |-> i, log |-> <<>>]

except_Exception(i) ==
    [pc |-> "file", file_i |-> i + 1,
     log |-> <<Entry("CRITICAL", "Fatal error processing file", i)>>]

\* if not xml_files: logging.critical(...)
NoFiles ==
    /\ pc = "start" /\ Len(xml_files) = 0
    /\ log' = Append(log, Entry("CRITICAL", "No XML files found", 0))
    /\ pc' = "done"
    /\ UNCHANGED <<call, ret, xml_files, file_i, sheet_i, all_page19_data,
                   all_sched_p_data, pg19_df_sorted, sched_p_df_sorted>>

\* else: the two lists are created and the file loop is entered
Begin ==
    /\ pc = "start" /\ Len(xml_files) > 0
    /\ log' = Append(log, Entry("INFO", "Found XML files to process", 0))
    /\ all_page19_data' = <<>> /\ all_sched_p_data' = <<>>
    /\ pc' = "file" /\ file_i' = 1
    /\ UNCHANGED <<call, ret, xml_files, sheet_i, pg19_df_sorted, sched_p_df_sorted>>

\* for file_path in xml_files: tree = ET.parse(file_path) ... findall(Worksheet)
ParseFile ==
    /\ pc = "file" /\ file_i <= Len(xml_files)
    /\ \E ex \in {except_Exception(file_i)} :
           IF IsRaise(xml_files[file_i])
           THEN /\ log' = Append(log, Entry("INFO", "Processing file", file_i)) \o ex.log
                /\ pc' = ex.pc /\ file_i' = ex.file_i
                /\ UNCHANGED sheet_i
           ELSE /\ log' = Append(log, Entry("INFO", "Processing file", file_i))
                /\ pc' = "sheet" /\ sheet_i' = 1
                /\ UNCHANGED file_i
    /\ UNCHANGED <<call, ret, xml_files, all_page19_data, all_sched_p_data,
                   pg19_df_sorted, sched_p_df_sorted>>

\* for worksheet in worksheets: one pass of the body
ProcessWorksheet ==
    /\ pc = "sheet" /\ sheet_i <= Len(xml_files[file_i].v)
    /\ \E b \in {worksheet_body(xml_files[file_i].v[sheet_i])} :
       \E ex \in {except_Exception(file_i)} :
           IF b.raised # None
           THEN /\ log' = log \o ex.log
                /\ pc' = ex.pc /\ file_i' = ex.file_i
                /\ UNCHANGED <<sheet_i, all_page19_data, all_sched_p_data>>
           ELSE /\ all_page19_data' = all_page19_data \o b.page19
                /\ all_sched_p_data' = all_sched_p_data \o b.sched_p
                /\ log' = log \o (IF b.logged = None THEN <<>>
                                  ELSE <<Entry("ERROR", Text(b.logged), file_i)>>)
                /\ sheet_i' = sheet_i + 1
                /\ UNCHANGED <<pc, file_i>>
    /\ UNCHANGED <<call, ret, xml_files, pg19_df_sorted, sched_p_df_sorted>>

\* the worksheet loop is exhausted: on to the next file
EndOfFile ==
    /\ pc = "sheet" /\ sheet_i > Len(xml_files[file_i].v)
    /\ pc' = "file" /\ file_i' = file_i + 1
    /\ UNCHANGED <<call, ret, xml_files, sheet_i, all_page19_data,
                   all_sched_p_data, pg19_df_sorted, sched_p_df_sorted, log>>

\* Final Output Generation: a sheet is written only for a non-empty list
FinalOutput ==
    /\ pc = "file" /\ file_i > Len(xml_files)
    /\ pg19_df_sorted' = sort_values(drop_duplicates(all_page19_data), page19_by)
    /\ sched_p_df_sorted' = sort_values(all_sched_p_data, sched_p_by)
    /\ log' = log \o
              <<Entry(IF Len(all_page19_data) > 0 THEN "INFO" ELSE "WARNING",
                      "Page 14 data", 0),
                Entry(IF Len(all_sched_p_data) > 0 THEN "INFO" ELSE "WARNING",
                      "Schedule P data", 0)>>
    /\ pc' = "done"
    /\ UNCHANGED <<call, ret, xml_files, file_i, sheet_i, all_page19_data,
                   all_sched_p_data>>

NextRun == NoFiles \/ Begin \/ ParseFile \/ ProcessWorksheet \/ EndOfFile \/ FinalOutput

(***************************************************************************)
(* Input documents of the main script                                      *)
(***************************************************************************)
AcmeHeader == "2022 OF THE ACME INSURANCE CO (NAIC #12345)"
ZetaHeader == "2021 OF THE ZETA MUTUAL"
NumberRow == <<At(8, "1"), Nx("2"), At(13, "6"), At(16, "9")>>
StateRow(state) == <<At(2, "Direct Business in the State of"), At(4, state)>>
DataRow(lob, gwp) == <<At(2, lob), At(8, gwp), Nx("900"), At(13, "(50)"), At(16, "XXX")>>

\* a premium exhibit with one data row
ExhibitSheet(header, state, lob, gwp) ==
    Worksheet(Str("PG19"),
              << <<At(1, "EXHIBIT OF PREMIUMS AND LOSSES"), Nx(header)>>,
                 StateRow(state), NumberRow, DataRow(lob, gwp) >>)

\* a premium exhibit whose last row holds code 19.3
LaggedLastSheet ==
    Worksheet(Str("PG19 GT"),
              << <<At(1, "Exhibit of Premiums and Losses"), Nx(AcmeHeader)>>,
                 NumberRow, DataRow("19.4", "7"), <<At(2, "19.3")>> >>)

SchedPRows(title) ==
    << <<At(1, "SCHEDULE P - PART 1C"), Nx(ZetaHeader)>>, <<>>, <<At(1, title)>>,
       <<At(3, "Years"), At(4, "1"), At(7, "25"), Nx("26")>>,
       <<At(3, "Prior"), Nx("XXX"), At(7, "3"), Nx("1,200")>>,
       <<At(3, "Prior"), Nx("XXX"), At(7, "4"), Nx("1,300")>>,
       <<At(3, "Prior"), Nx("10"), At(7, "5"), Nx("(40)")>>,
       <<At(3, "2013"), Nx("20"), At(7, "6"), Nx("1,500")>> >>

\* a schedule whose line of business is in row 3, one whose line is in its
\* name only, a summary, a schedule without ss:Name, and a cover sheet
SchedPSheet == Worksheet(Str("PG35"), SchedPRows("Commercial Auto Liability"))
SchedPByName == Worksheet(Str("Auto Phys Dmg"), SchedPRows("Section 1"))
SummarySheet == Worksheet(Str("PG33"), SchedPRows("Part 1 - Summary"))
UnnamedSheet == Worksheet(None, SchedPRows("Section 1"))
CoverSheet == Worksheet(Str("Cover"), << <<At(1, "Annual Statement")>> >>)

\* ET.parse raises ParseError on malformed markup
Malformed == Raise("ParseError")

CandidateFiles ==
    { Malformed,
      Ok(<<ExhibitSheet(AcmeHeader, "Texas", "21.2", "1,000.00"), SchedPSheet>>),
      Ok(<<ExhibitSheet(AcmeHeader, "Texas", "21.2", "2,000")>>),
      Ok(<<ExhibitSheet(AcmeHeader, "Ohio", "19.4", "30"), UnnamedSheet,
           ExhibitSheet(ZetaHeader, "Grand Total", "21.2", "5")>>),
      Ok(<<CoverSheet, LaggedLastSheet, SummarySheet>>),
      Ok(<<SchedPByName, ExhibitSheet(ZetaHeader, "Ohio", "19.4", "30")>>),
      Ok(<<UnnamedSheet>>),
      Ok(<<>>) }

\* how many input files a run is given at most
MaxFiles == 2

FileLists == UNION {[1..n -> CandidateFiles] : n \in 0..MaxFiles}

Idle == call = NotCalled /\ ret = NotCalled

InitRun ==
    /\ Idle
    /\ xml_files \in FileLists
    /\ pc = "start" /\ file_i = 0 /\ sheet_i = 0
    /\ all_page19_data = <<>> /\ all_sched_p_data = <<>>
    /\ pg19_df_sorted = <<>> /\ sched_p_df_sorted = <<>>
    /\ log = <<>>

SpecRun == InitRun /\ [][NextRun]_vars

\* the script is one thread that runs to its end
FairRun == SpecRun /\ WF_vars(NextRun)

(***************************************************************************)
(* A function on its own: call holds the arguments, ret the result         *)
(***************************************************************************)
\* the main script does not run while a function is checked on its own
FunctionOnly ==
    /\ xml_files = <<>> /\ pc = "function" /\ file_i = 0 /\ sheet_i = 0
    /\ all_page19_data = <<>> /\ all_sched_p_data = <<>>
    /\ pg19_df_sorted = <<>> /\ sched_p_df_sorted = <<>>
    /\ log = <<>>

\* the texts of at most n characters drawn from chars
RECURSIVE TextsUpTo(_, _)
TextsUpTo(chars, n) ==
    IF n = 0 THEN {""}
    ELSE UNION {{s} \cup {s \o c : c \in chars} : s \in TextsUpTo(chars, n - 1)}

\* how long the enumerated arguments of clean_numeric are at most
MaxNumLen == 3

NumChars == {"1", ".", ",", "(", ")", "-", " ", "X", "i", "n", "f", "a"}
NumExamples ==
    {"(1,234.5)", "XXX", "NA", " xXx1 ", "(inf)", "Infinity", "NaN", "-5",
     "+.5", "1,000.50 ", "N/A", "12 3", "(12)", "-(1)", "(-1)", "0.0"}
\* an argument that is neither None nor a str
NotText == <<"float", "12.5">>

NumericCalls ==
    {[fn |-> "clean_numeric", value |-> v] :
        v \in {None, NotText} \cup
              {Str(t) : t \in TextsUpTo(NumChars, MaxNumLen) \cup NumExamples}}

InitNum == call \in NumericCalls /\ ret = NotCalled /\ FunctionOnly

CallCleanNumeric ==
    /\ pc = "function" /\ call.fn = "clean_numeric" /\ ret = NotCalled
    /\ ret' = Returned(clean_numeric(call.value))
    /\ UNCHANGED <<call, runVars>>

SpecNum == InitNum /\ [][CallCleanNumeric]_vars

\* C10: clean_numeric never raises and returns the missing marker or a
\* finite number; it returns missing for a missing or non-text argument and
\* for a text that, trimmed, contains "XXX" in any letter case, is empty or
\* is "NA"; and "(1,234.5)" gives -1234.5.
C10_MissingOrFinite ==
    ret # NotCalled =>
        /\ ~IsRaise(ret.v)
        /\ ret.v = NoneF \/ IsFinite(ret.v)
        /\ ~IsStr(call.value) => ret.v = NoneF
        /\ IsStr(call.value) =>
               \A t \in {strip(Text(call.value))} :
                   (In("XXX", upper(t)) \/ t = "" \/ t = "NA") => ret.v = NoneF
        /\ call.value = Str("(1,234.5)") => ret.v = Norm(-12345, 1)

\* how many cells the enumerated rows have at most, and the largest
\* ss:Index attribute they carry
MaxCells == 3
MaxCol == 2

\* a cell carries ss:Index or not, and a Data text (padded, and naming the
\* cell's place in the row) or none
IndexChoices == {None} \cup {Str(str(n)) : n \in 1..MaxCol}
CellShapes == UNION {[1..n -> IndexChoices \X BOOLEAN] : n \in 0..MaxCells}
RowOf(shape) ==
    [j \in 1..Len(shape) |->
        Cell(shape[j][1], IF shape[j][2] THEN Str(" d" \o str(j) \o " ") ELSE None)]

CellCalls ==
    {[fn |-> "get_cell_data", row |-> RowOf(shape), cell_index |-> c] :
        shape \in CellShapes, c \in 1..(MaxCol + 1)}

InitCell == call \in CellCalls /\ ret = NotCalled /\ FunctionOnly

CallGetCellData ==
    /\ pc = "function" /\ call.fn = "get_cell_data" /\ ret = NotCalled
    /\ ret' = Returned(get_cell_data(call.row, call.cell_index))
    /\ UNCHANGED <<call, runVars>>

SpecCell == InitCell /\ [][CallGetCellData]_vars

\* the resolution rule: the explicit index of cell j, else the resolved
\* index of the cell before it plus one, else 1
RECURSIVE rule_index(_, _)
rule_index(row, j) ==
    IF row[j].Index # None THEN int(Text(row[j].Index))
    ELSE IF j = 1 THEN 1
    ELSE rule_index(row, j - 1) + 1

\* where the rule puts cell j when it carries no index
rule_default(row, j) == IF j = 1 THEN 1 ELSE rule_index(row, j - 1) + 1

\* the row with every cell carrying its index, and with only the cells that
\* skip positions carrying one
all_explicit(row) ==
    [j \in 1..Len(row) |-> Cell(Str(str(rule_index(row, j))), row[j].Data)]
only_skips(row) ==
    [j \in 1..Len(row) |->
        Cell(IF rule_index(row, j) = rule_default(row, j) THEN None
             ELSE Str(str(rule_index(row, j))),
             row[j].Data)]

\* the trimmed text of the first cell the rule puts at column c, if any
rule_lookup(row, c) ==
    IF \E j \in 1..Len(row) : rule_index(row, j) = c
    THEN data_text(row[Least({j \in 1..Len(row) : rule_index(row, j) = c})].Data)
    ELSE None

\* C7: get_cell_data returns the same text (or missing) for a row, for the
\* row with every cell carrying its 1-based index and for the row with only
\* the skipping cells carrying one, and that is the text of the cell whose
\* index, explicit or else the previous resolved index + 1 (1 for the first
\* cell), is the target column.
C7_CarryForward ==
    ret # NotCalled =>
        /\ ret.v = get_cell_data(all_explicit(call.row), call.cell_index)
        /\ ret.v = get_cell_data(only_skips(call.row), call.cell_index)
        /\ ret.v = rule_lookup(call.row, call.cell_index)

\* a lookup answered by a cell without an index that follows a cell whose
\* index skipped a position
C7_Witness ==
    /\ ret # NotCalled /\ call.cell_index = 3
    /\ Len(call.row) >= 2
    /\ call.row[1].Index = Str("2") /\ call.row[2].Index = None
    /\ ret.v = Str("d2")
    /\ all_explicit(call.row) # call.row
    /\ only_skips(call.row) # all_explicit(call.row)

\* how many rows the enumerated worksheets have, and the rightmost column a
\* marker is put in
MaxRow == 6
MaxColumn == 5

ExhibitText == "Exhibit of Premiums and Losses"
ScheduleText == "Schedule P - Part 1A"
BothText == "SCHEDULE P - PART 1 / EXHIBIT OF PREMIUMS AND LOSSES"

\* where a marker is: <<row, column>>, or nowhere in the worksheet
Nowhere == <<0, 0>>
Places == ((1..MaxRow) \X (1..MaxColumn)) \cup {Nowhere}

\* row r of the worksheet with the exhibit marker at e and the schedule
\* marker at p
MarkedRow(r, e, p) ==
    IF e[1] = r /\ p[1] = r
    THEN IF e[2] = p[2] THEN <<At(e[2], BothText)>>
         ELSE IF e[2] < p[2] THEN <<At(e[2], ExhibitText), At(p[2], ScheduleText)>>
         ELSE <<At(p[2], ScheduleText), At(e[2], ExhibitText)>>
    ELSE IF e[1] = r THEN <<At(e[2], ExhibitText)>>
    ELSE IF p[1] = r THEN <<At(p[2], ScheduleText)>>
    ELSE <<Nx("Annual Statement")>>
MarkedRows(e, p) == [r \in 1..MaxRow |-> MarkedRow(r, e, p)]

ClassifyCalls ==
    {[fn |-> "identify_report_type", exhibit |-> e, schedule |-> p,
      rows |-> MarkedRows(e, p)] : e \in Places, p \in Places}

InitClassify == call \in ClassifyCalls /\ ret = NotCalled /\ FunctionOnly

CallIdentifyReportType ==
    /\ pc = "function" /\ call.fn = "identify_report_type" /\ ret = NotCalled
    /\ ret' = Returned(identify_report_type(call.rows))
    /\ UNCHANGED <<call, runVars>>

SpecClassify == InitClassify /\ [][CallIdentifyReportType]_vars

\* the window of the scan, and its order
in_window(place) == place[1] \in 1..5 /\ place[2] \in 1..4
scanned_before(a, b) == a[1] < b[1] \/ (a[1] = b[1] /\ a[2] < b[2])
first_marker_in_window(e, p) ==
    IF in_window(e) /\ (~in_window(p) \/ scanned_before(e, p) \/ e = p)
    THEN Str("Page19")
    ELSE IF in_window(p) THEN Str("ScheduleP")
    ELSE None

\* C6 (as stated): a worksheet holding both markers, the exhibit marker in
\* an earlier row than the schedule marker, is classified Page19; and the
\* result is that of the first marker met in rows 1-5, columns 1-4, Unknown
\* when there is none.
C6_EarlierRowWins ==
    ret # NotCalled =>
        /\ (/\ call.exhibit # Nowhere /\ call.schedule # Nowhere
            /\ call.exhibit[1] < call.schedule[1]) => ret.v = Str("Page19")
        /\ ret.v = first_marker_in_window(call.exhibit, call.schedule)

\* C6 (amended): the result is that of the first cell holding a marker in
\* the scan of rows 1-5 and, within each row, columns 1-4 (Page19 when that
\* cell holds both markers), and Unknown when no marker lies in the window;
\* a marker outside the window decides nothing, whatever its row.
C6_FirstMarkerInWindow ==
    ret # NotCalled =>
        ret.v = first_marker_in_window(call.exhibit, call.schedule)

\* both markers in the window, the exhibit marker in the earlier row
C6_Witness ==
    /\ ret # NotCalled
    /\ in_window(call.exhibit) /\ in_window(call.schedule)
    /\ call.exhibit[1] < call.schedule[1]
    /\ ret.v = Str("Page19")

\* how many rows the enumerated schedule worksheets have at most
MaxLobRows == 4

LobNames ==
    {None, Str("Comm'l Auto L PG35"), Str("Auto Phys Dmg"), Str("PG33"),
     Str("PG35"), Str("PG33 Comm'l Auto L")}
\* the cell of row 3, column 1
LobHeaders ==
    { <<>>, <<At(1, "Commercial Auto Liability")>>, <<At(1, "Auto Physical Damage")>>,
      <<At(1, "Part 1 - Summary")>>, <<At(1, "Section 1")>>,
      <<At(1, "Summary - Auto Physical Damage")>>, <<At(2, "Commercial Auto Liability")>> }
LobRows(n, header) ==
    [r \in 1..n |-> IF r = 3 THEN header ELSE <<At(1, "SCHEDULE P - PART 1C")>>]

LobCalls ==
    {[fn |-> "identify_sched_p_lob", worksheet |-> Worksheet(name, LobRows(n, header))] :
        name \in LobNames, n \in 0..MaxLobRows, header \in LobHeaders}

InitLob == call \in LobCalls /\ ret = NotCalled /\ FunctionOnly

\* the main script's identification and the test script's, of one worksheet
CallIdentifySchedPLob ==
    /\ pc = "function" /\ call.fn = "identify_sched_p_lob" /\ ret = NotCalled
    /\ ret' = Returned(
                  [main |-> identify_sched_p_lob(call.worksheet, call.worksheet.rows),
                   test |-> test_schedule_p_lob_identification(call.worksheet)])
    /\ UNCHANGED <<call, runVars>>

SpecLob == InitLob /\ [][CallIdentifySchedPLob]_vars

\* the priority chain: the text of row 3, column 1, then the worksheet name
chain_header(rows) ==
    IF Len(rows) >= 3 /\ Truthy(get_cell_data(rows[3], 1))
    THEN upper(Text(get_cell_data(rows[3], 1))) ELSE ""
chain_name(name) == IF name = None THEN "" ELSE upper(Text(name))
chain_of(header, name) ==
    IF In("COMMERCIAL AUTO LIABILITY", header) THEN Str("AL")
    ELSE IF In("AUTO PHYSICAL DAMAGE", header) THEN Str("APD")
    ELSE IF In("SUMMARY", header) THEN Str("SUMMARY")
    ELSE IF In("COMM'L AUTO L", name) THEN Str("AL")
    ELSE IF In("AUTO PHYS", name) THEN Str("APD")
    ELSE IF In("PG33", name) THEN Str("SUMMARY")
    ELSE None
priority_chain(worksheet) ==
    chain_of(chain_header(worksheet.rows), chain_name(worksheet.Name))

\* process with a line of business, or skip, as the main script decides
\* from what identify_sched_p_lob returned and as the test script reports
main_decision(lob) ==
    IF IsRaise(lob) THEN lob
    ELSE IF lob.v \in {Str("AL"), Str("APD")}
    THEN Ok([status |-> "PROCESSED", lob |-> lob.v])
    ELSE Ok([status |-> "SKIPPED", lob |-> None])

\* C9: identify_sched_p_lob returns what the priority chain gives (row 3,
\* column 1 first, the worksheet name only when the header gave nothing,
\* Unknown otherwise), and the main script's process/skip decision is the
\* one the test script computes for the same worksheet.
C9_PriorityChainAndTestAgree ==
    ret # NotCalled =>
        /\ ret.v.main = Ok(priority_chain(call.worksheet))
        /\ main_decision(ret.v.main) = ret.v.test

\* how many rows follow the number row of an enumerated premium exhibit at
\* most, and how many follow the header row of an enumerated schedule
MaxDataRows == 3
MaxLabelRows == 4

\* column 2 of a row under the number row: a line-of-business code, another
\* code, or nothing (a continuation line)
LobCodes == {"19.3", "19.4", "21.2", "17.1", ""}
\* the q-th row under the number row; its numbers name q
AmountRow(code, q) ==
    (IF code = "" THEN <<>> ELSE <<At(2, code)>>)
        \o <<At(8, str(q) \o ",100.0"), Nx(str(q) \o "1"),
             At(13, "(" \o str(q) \o "2)"), At(16, str(q) \o "3")>>
AmountRows(codes) == [q \in 1..Len(codes) |-> AmountRow(codes[q], q)]

\* the number row as it should be, without code 6, missing, and below row 10
Anchors == {"full", "no 6", "absent", "late"}
Filler == <<At(1, "Annual Statement")>>
TopRows(anchor) ==
    << <<At(1, "EXHIBIT OF PREMIUMS AND LOSSES"), Nx(AcmeHeader)>>,
       StateRow("Ohio") >>
        \o (CASE anchor = "full" -> <<NumberRow>>
              [] anchor = "no 6" -> << <<At(8, "1"), Nx("2"), At(16, "9")>> >>
              [] anchor = "absent" -> <<>>
              [] anchor = "late" -> [r \in 1..9 |-> IF r < 9 THEN Filler ELSE NumberRow])

Page19Calls ==
    {[fn |-> "process_page19_worksheet", anchor |-> anchor, codes |-> codes,
      worksheet |-> Worksheet(Str("PG19"), TopRows(anchor) \o AmountRows(codes))] :
        anchor \in Anchors,
        codes \in UNION {[1..n -> LobCodes] : n \in 0..MaxDataRows}}

\* column 3 of a row under the header row of a schedule
Labels == {"Prior", "2013", ""}
\* the q-th row under the header row; its numbers name q
LabelRow(label, q) ==
    (IF label = "" THEN <<>> ELSE <<At(3, label)>>)
        \o <<At(4, str(q) \o "00"), At(7, str(q) \o "7"), Nx("(" \o str(q) \o "8)")>>
LabelRows(labels) == [q \in 1..Len(labels) |-> LabelRow(labels[q], q)]

\* which of the column numbers 1, 25, 26 the header row shows
TokenSets == {{"1", "25", "26"}, {"1", "25"}, {}}
TokenRow(tokens) ==
    <<At(3, "Years")>>
        \o (IF "1" \in tokens THEN <<At(4, "1")>> ELSE <<>>)
        \o (IF "25" \in tokens THEN <<At(7, "25")>> ELSE <<>>)
        \o (IF "26" \in tokens THEN <<At(8, "26")>> ELSE <<>>)

SchedPCalls ==
    {[fn |-> "process_schedule_p_worksheet", tokens |-> tokens, labels |-> labels,
      lob |-> lob,
      worksheet |->
          Worksheet(Str("PG35"),
                    << <<At(1, "SCHEDULE P - PART 1C"), Nx(ZetaHeader)>>,
                       TokenRow(tokens) >> \o LabelRows(labels))] :
        tokens \in TokenSets, lob \in {"AL", "APD"},
        labels \in UNION {[1..n -> Labels] : n \in 0..MaxLabelRows}}

\* longer schedules, all three column numbers shown: "Prior" rows stand gap
\* rows apart (a fourth one follows the third block), every fifth row has no
\* label and every seventh is labelled in capitals
MaxLongRows == 38
Gaps == {1, 2, 12}
LongLabel(q, gap) ==
    IF q \in {1, 1 + gap, 1 + 2 * gap, 2 + 3 * gap}
        THEN (IF gap = 2 THEN "Prior Years" ELSE "Prior")
    ELSE IF q % 5 = 0 THEN ""
    ELSE IF q % 7 = 0 THEN "PRIOR"
    ELSE str(2000 + q)
LongLabels(n, gap) == [q \in 1..n |-> LongLabel(q, gap)]

LongSchedPCalls ==
    {[fn |-> "process_schedule_p_worksheet", tokens |-> {"1", "25", "26"},
      labels |-> LongLabels(n, gap), lob |-> "AL",
      worksheet |->
          Worksheet(Str("PG35"),
                    << <<At(1, "SCHEDULE P - PART 1C"), Nx(ZetaHeader)>>,
                       TokenRow({"1", "25", "26"}) >> \o LabelRows(LongLabels(n, gap)))] :
        n \in 5..MaxLongRows, gap \in Gaps}

InitExtract ==
    /\ call \in Page19Calls \cup SchedPCalls \cup LongSchedPCalls
    /\ ret = NotCalled /\ FunctionOnly

CallProcessPage19 ==
    /\ pc = "function" /\ call.fn = "process_page19_worksheet" /\ ret = NotCalled
    /\ ret' = Returned(process_page19_worksheet(call.worksheet))
    /\ UNCHANGED <<call, runVars>>

CallProcessScheduleP ==
    /\ pc = "function" /\ call.fn = "process_schedule_p_worksheet" /\ ret = NotCalled
    /\ ret' = Returned(process_schedule_p_worksheet(call.worksheet, call.lob))
    /\ UNCHANGED <<call, runVars>>

NextExtract == CallProcessPage19 \/ CallProcessScheduleP

SpecExtract == InitExtract /\ [][NextExtract]_vars

(***************************************************************************)
(* Properties of the run                                                   *)
(***************************************************************************)
RECURSIVE Flat(_)
Flat(seqs) == IF seqs = <<>> THEN <<>> ELSE Head(seqs) \o Flat(Tail(seqs))

\* the exception that ends the processing of a file, if any
sheet_raises(worksheet) == worksheet_body(worksheet).raised # None
file_fails(file) == IsRaise(file) \/ \E j \in 1..Len(file.v) : sheet_raises(file.v[j])

\* the records a worksheet yields when its own failure is all it loses
records_unless_raised(b, list) == IF b.raised # None THEN <<>> ELSE b[list]
sheet_records(worksheet, list) == records_unless_raised(worksheet_body(worksheet), list)
document_records(sheets, list) ==
    Flat([j \in 1..Len(sheets) |-> sheet_records(sheets[j], list)])

\* what a file adds when a failed file adds nothing
file_records_all_or_nothing(file, list) ==
    IF file_fails(file) THEN <<>> ELSE document_records(file.v, list)
\* what a file adds when only its failing worksheets add nothing
file_records_per_sheet(file, list) ==
    IF IsRaise(file) THEN <<>> ELSE document_records(file.v, list)

\* C1: whenever the file loop stands between two files, the two accumulated
\* lists hold the records of the files that ended without an exception and
\* nothing of a file whose processing ended in the file-level except clause.
C1_FailedFileLeavesNoRecords ==
    pc = "file" =>
        /\ all_page19_data =
               Flat([k \in 1..(file_i - 1) |->
                        file_records_all_or_nothing(xml_files[k], "page19")])
        /\ all_sched_p_data =
               Flat([k \in 1..(file_i - 1) |->
                        file_records_all_or_nothing(xml_files[k], "sched_p")])

\* C2: a worksheet whose classification, line-of-business identification or
\* extraction fails contributes no record and every other worksheet of the
\* same document still contributes its records; only a document that does
\* not parse contributes nothing at all.
C2_WorksheetFailureIsContained ==
    pc = "file" =>
        /\ all_page19_data =
               Flat([k \in 1..(file_i - 1) |->
                        file_records_per_sheet(xml_files[k], "page19")])
        /\ all_sched_p_data =
               Flat([k \in 1..(file_i - 1) |->
                        file_records_per_sheet(xml_files[k], "sched_p")])

\* the files the log shows as started, in the order they were started
RECURSIVE attempted(_)
attempted(entries) ==
    IF entries = <<>> THEN <<>>
    ELSE IF Head(entries).event = "Processing file"
    THEN <<Head(entries).file>> \o attempted(Tail(entries))
    ELSE attempted(Tail(entries))

\* C3: for a non-empty list of input files, whichever of them raise, the run
\* eventually reaches the final output stage having attempted every file
\* exactly once, in list order.
C3_EveryFileAttemptedAndRunEnds ==
    Len(xml_files) > 0 =>
        <>(pc = "done" /\ attempted(log) = [k \in 1..Len(xml_files) |-> k])

\* a run that ended with the first of two files failed and the second one
\* having delivered records
C3_Witness ==
    /\ pc = "done" /\ Len(xml_files) = 2
    /\ file_fails(xml_files[1])
    /\ attempted(log) = <<1, 2>>
    /\ Len(all_page19_data) > 0

first_with_key(rows, key) ==
    rows[Least({i \in 1..Len(rows) : dedup_key(rows[i]) = key})]

\* C4: after the final output stage no two premium records of the output
\* share (NAIC, YEAR, State, LOB), every key of the accumulated premium
\* records survives with the first record accumulated under it, and the
\* schedule records are as many as were accumulated.
C4_FirstSeenSurvives ==
    pc = "done" =>
        /\ \A i, j \in 1..Len(pg19_df_sorted) :
               dedup_key(pg19_df_sorted[i]) = dedup_key(pg19_df_sorted[j]) => i = j
        /\ {pg19_df_sorted[i] : i \in 1..Len(pg19_df_sorted)} =
               {first_with_key(all_page19_data, dedup_key(all_page19_data[i])) :
                    i \in 1..Len(all_page19_data)}
        /\ Len(sched_p_df_sorted) = Len(all_sched_p_data)

\* a finished run that accumulated two different premium records under one
\* key, and schedule records besides
C4_Witness ==
    /\ pc = "done" /\ Len(all_sched_p_data) > 0
    /\ \E i, j \in 1..Len(all_page19_data) :
           /\ i < j
           /\ dedup_key(all_page19_data[i]) = dedup_key(all_page19_data[j])
           /\ all_page19_data[i] # all_page19_data[j]

\* the numbers written on the q-th row under the number row
amounts(q) ==
    [GWP |-> Norm(1000 * q + 100, 0), EP |-> Norm(10 * q + 1, 0),
     DIRECT_LOSSES_INC |-> Norm(0 - (10 * q + 2), 0), DCC |-> Norm(10 * q + 3, 0)]
numbers_of(rec) ==
    [GWP |-> rec.GWP, EP |-> rec.EP,
     DIRECT_LOSSES_INC |-> rec.DIRECT_LOSSES_INC, DCC |-> rec.DCC]
recognized == {"19.3", "19.4", "21.2"}
\* the row the numbers of the record of row q are to be read from
lagged(codes, q) == IF codes[q] = "19.3" THEN q + 1 ELSE q
\* how many rows up to q hold a recognized code
nth_record(codes, q) == Cardinality({p \in 1..q : codes[p] \in recognized})

\* C5: in a premium exhibit with a valid header text and header map, every
\* row whose column 2 holds 19.3, 19.4 or 21.2 yields a record, in row order,
\* carrying that code; the numbers of a 19.3 record are those of the next
\* row, the numbers of a 19.4 or 21.2 record are those of its own row, and
\* this holds wherever the row stands, the last row included.
C5_LagReadsNextRow ==
    (ret # NotCalled /\ call.fn = "process_page19_worksheet" /\ call.anchor = "full") =>
        \A q \in 1..Len(call.codes) :
            call.codes[q] \in recognized =>
                /\ nth_record(call.codes, q) <= Len(ret.v.records)
                /\ ret.v.records[nth_record(call.codes, q)].LOB = call.codes[q]
                /\ (lagged(call.codes, q) <= Len(call.codes)) =>
                       (numbers_of(ret.v.records[nth_record(call.codes, q)])
                           = amounts(lagged(call.codes, q)))

\* C8: a worksheet whose header cannot be resolved yields no record and no
\* error: the schedule extractor returns an empty list with nothing raised
\* or logged whenever one of the column numbers 1, 25, 26 is missing,
\* however many "Prior" rows there are, and the premium-exhibit extractor
\* returns an empty list whenever the number row is missing from the first
\* ten rows or lacks one of the codes 1, 2, 6, 9.
C8_HeaderFailureGivesNothing ==
    ret # NotCalled =>
        /\ (call.fn = "process_schedule_p_worksheet" /\ call.tokens # {"1", "25", "26"}) =>
               (ret.v.records = <<>> /\ ret.v.error = None)
        /\ (call.fn = "process_page19_worksheet" /\ call.anchor # "full") =>
               ret.v.records = <<>>

\* "Prior" stands in the label, in this spelling
holds_prior(label) ==
    \E k \in 1..(Len(label) - 4) : SubSeq(label, k, k + 4) = "Prior"
\* the rows under the header row whose column 3 holds "Prior", in order
anchor_rows(labels) ==
    SelectSeq([q \in 1..Len(labels) |-> q], LAMBDA q : holds_prior(labels[q]))
\* the offsets scanned: 0..11 up to the first one that takes a1, a2 or a3
\* past the last row
scanned_offsets(labels, a) ==
    {i \in 0..11 : \A j \in 0..i : \A b \in 1..3 : a[b] + j <= Len(labels)}
\* the scanned offsets whose row a1+i has a label
emitted_offsets(labels, a) ==
    {i \in scanned_offsets(labels, a) : labels[a[1] + i] # ""}
\* the record of offset i: label and earned premium of row a1+i, claim count
\* of row a2+i, losses incurred of row a3+i (each row's numbers name the row)
offset_record(labels, a, i) ==
    [YEAR |-> labels[a[1] + i], EP |-> Norm(100 * (a[1] + i), 0),
     CLAIMS |-> Norm(10 * (a[2] + i) + 7, 0),
     LOSSES_INC |-> Norm(0 - (10 * (a[3] + i) + 8), 0)]
block_fields_of(rec) ==
    [YEAR |-> rec.YEAR, EP |-> rec.EP, CLAIMS |-> rec.CLAIMS,
     LOSSES_INC |-> rec.LOSSES_INC]
\* the records claimed for a schedule with these labels under its header row
block_records(labels, a) ==
    IF Len(a) < 3 THEN <<>>
    ELSE [n \in 1..Cardinality(emitted_offsets(labels, a)) |->
            offset_record(labels, a,
                CHOOSE i \in emitted_offsets(labels, a) :
                    Cardinality({j \in emitted_offsets(labels, a) : j <= i}) = n)]

\* C11: given a matching header text and a complete header map, the schedule
\* extractor returns no record when fewer than three rows hold "Prior"
\* (case-sensitive) in column 3; otherwise, with a1, a2, a3 the first three
\* such rows, it scans the offsets 0..11 in increasing order, stops at the
\* first offset that takes a1, a2 or a3 past the last row, skips an offset
\* whose row a1+i has no label, and for every other offset emits exactly one
\* record with the label and earned premium of row a1+i, the claim count of
\* row a2+i and the losses incurred of row a3+i: at most 12 records, in
\* increasing offset order.
C11_ThreeBlocksByOffset ==
    (ret # NotCalled /\ call.fn = "process_schedule_p_worksheet"
        /\ call.tokens = {"1", "25", "26"}) =>
        /\ Len(ret.v.records) <= 12
        /\ [n \in 1..Len(ret.v.records) |-> block_fields_of(ret.v.records[n])]
               = block_records(call.labels, anchor_rows(call.labels))

\* a schedule whose three blocks stand twelve rows apart has been extracted:
\* all twelve offsets were scanned, two of them had no label, and a fourth
\* "Prior" row and further rows follow the third block
C11_Witness ==
    /\ ret # NotCalled /\ call.fn = "process_schedule_p_worksheet"
    /\ call.tokens = {"1", "25", "26"}
    /\ Len(anchor_rows(call.labels)) = 4
    /\ anchor_rows(call.labels)[2] = 13
    /\ Len(call.labels) = MaxLongRows
    /\ Len(ret.v.records) = 10
    /\ ret.v.records[5].YEAR = "2006"

====
